---- MODULE Spec2Model ----
(***************************************************************************)
(* Model of the submission backend of hackathon_energy_2024:               *)
(*   submission_backend/poll.py  (tag poller, orchestrator)                *)
(*   submission_backend/dock.py  (sandbox runner, result extractor)        *)
(*   submission_backend/db.py    (submission recorder)                     *)
(* A poll invocation (main) is a process; its position in the code is pc.  *)
(* The DynamoDB table, the docker daemon and the file system are shared.   *)
(***************************************************************************)
EXTENDS Integers, Sequences, FiniteSets, TLC

\* ---------------------------------------------------------------- bounds
MaxTags == 3        \* most tags a repository has
PerPage == 2        \* tags on one page of the tag-listing API (GitHub: 30)
MaxUuid == 2        \* image tags (uuid4 values) available to the model
MaxTime == 1        \* time.time() readings, 1..MaxTime
MaxTrials == 3      \* largest --trials of evaluate.py (default: 100)
MaxData == 3        \* most rows of the market data file
MaxSeed == 2        \* largest --seed of evaluate.py (default: 42)
RngStates == 4      \* states of the generator behind random.randint
MaxCalls == 4       \* most calls made on one Battery

\* ------------------------------------------------------- python values
\* Every python value carries its type, as isinstance() sees it.
None == [k |-> "none"]
S(s) == [k |-> "str", s |-> s]
I(n) == [k |-> "int", n |-> n]
F(n) == [k |-> "float", n |-> n]
Dec(n) == [k |-> "Decimal", n |-> n]
L(items) == [k |-> "list", items |-> items]
D(d) == [k |-> "dict", d |-> d]

\* --------------------------------------------------------------- db.py
RECURSIVE convert_floats_to_decimal(_)
convert_floats_to_decimal(obj) ==
    CASE obj.k = "float" -> Dec(obj.n)
      [] obj.k = "list"  ->
           L([i \in 1..Len(obj.items) |-> convert_floats_to_decimal(obj.items[i])])
      [] obj.k = "dict"  ->
           D([key \in DOMAIN obj.d |-> convert_floats_to_decimal(obj.d[key])])
      [] OTHER -> obj

\* The composite primary key of the table green-battery-hack.
KeyOf(item) == <<item["team"], item["commit_hash"]>>

\* table.put_item: the item replaces whatever the table holds under its key.
put_item(tbl, item) == {r \in tbl : KeyOf(r) # KeyOf(item)} \cup {item}

\* table.get_item: the response of a read by key ('Item' present or not).
get_item(tbl, team, commit_hash) ==
    {r \in tbl : KeyOf(r) = <<S(team), S(commit_hash)>>}

is_already_submittedStatusOnly(tbl, team, submission_hash) ==
    \E r \in get_item(tbl, team, submission_hash) : r["status"] = S("success")

\* DBClient.is_already_submitted: 'Item' in response.
is_already_submitted(tbl, team, submission_hash) ==
    get_item(tbl, team, submission_hash) # {}

\* DBClient.submit, up to the put_item call: the two asserts, the converted
\* copy and its submitted_at stamp.
SubmitAsserts(submission) ==
    "team" \in DOMAIN submission /\ "commit_hash" \in DOMAIN submission

cloned_submission(submission, t) ==
    [key \in DOMAIN submission \cup {"submitted_at"} |->
        IF key = "submitted_at" THEN I(t)
        ELSE convert_floats_to_decimal(submission[key])]

Times == 1..MaxTime

\* -------------------------------------------------------------- poll.py
REPOS == <<"trading-bot-test-team", "trading-bot">>

Marker == <<"s","u","b","m","i","s","s","i","o","n">>

ContainsEqual(sub, s) == s = sub

\* python's  sub in s  on strings
Contains(sub, s) ==
    \E i \in 0..(Len(s) - Len(sub)) : SubSeq(s, i + 1, i + Len(sub)) = sub

V10  == <<"v","1",".","0">>
Sub1 == <<"s","u","b","m","i","s","s","i","o","n","-","1">>
Sub3 == <<"s","u","b","m","i","s","s","i","o","n","-","3">>
TagNames == {V10, Sub1, Sub3}
Commits == {"c1"}

\* One element of the tag listing: tag['name'], tag['commit']['sha'].
TagsOf(commits) == [name : TagNames, sha : commits]
Tags == TagsOf(Commits)

RECURSIVE SeqsUpTo(_, _)
SeqsUpTo(set, n) ==
    IF n = 0 THEN {<<>>}
    ELSE LET shorter == SeqsUpTo(set, n - 1)
         IN shorter \cup {Append(s, x) : s \in shorter, x \in set}

\* The tags of a repository, as GitHub lists them: a repository has one tag
\* of a name.
ListingsOf(tags) ==
    {l \in SeqsUpTo(tags, MaxTags) :
        \A i, j \in 1..Len(l) : i # j => l[i].name # l[j].name}
Listings == ListingsOf(Tags)

\* response.json() of line 32: the request of line 28 names no page, and the
\* API answers with the first page of the listing.
FirstPage(listing) ==
    SubSeq(listing, 1, IF Len(listing) < PerPage THEN Len(listing) ELSE PerPage)

RECURSIVE FilterTags(_)
FilterTags(listing) ==
    IF listing = <<>> THEN <<>>
    ELSE LET tag == Head(listing)
             rest == FilterTags(Tail(listing))
         IN IF Contains(Marker, tag.name) THEN <<tag>> \o rest ELSE rest

\* main line 112 binds tag_name and commit_sha of each pair; tag_name is
\* handed to submit_output and run_evaluation and read by neither, so the
\* loop is kept as the commits still to come.
CommitShas(submission_tags) ==
    [i \in 1..Len(submission_tags) |-> submission_tags[i].sha]

NoCommit == "none"

\* base_submission of submit_output
base_submission(repo_name, commit_sha) ==
    [team |-> S(repo_name), commit_hash |-> S(commit_sha), score |-> I(0),
     error |-> None, error_traceback |-> None, status |-> S("pending")]


\* ----------------------------------------------------- bot/environment.py
\* Energies are counted in 1/1080 kWh and money in 1/(1080*60*60) dollar, so
\* that the float arithmetic of Battery and BatteryEnv is exact on integers:
\* powers are whole kW, prices whole $/kWh.
kWh(n) == n * 1080

min(a, b) == IF a < b THEN a ELSE b
max(a, b) == IF a > b THEN a ELSE b

RECURSIVE Sum(_)
Sum(xs) == IF xs = <<>> THEN 0 ELSE Head(xs) + Sum(Tail(xs))

\* Battery.__init__, efficiency 0.9
Battery(capacity, charge_rate, discharge_rate, initial_charge) ==
    [capacity |-> kWh(capacity), initial_charge |-> kWh(initial_charge),
     charge_rate |-> charge_rate, discharge_rate |-> discharge_rate,
     state_of_charge |-> min(kWh(initial_charge), kWh(capacity))]

chargeUnclamped(battery, power, duration) ==
    LET pw == min(power, battery.charge_rate)
        energy_add_order == (kWh(pw) * duration * 9) \div (60 * 10)
        energy_added == min(energy_add_order,
                            battery.capacity - battery.state_of_charge)
    IN [battery |-> [battery EXCEPT !.state_of_charge = @ + energy_add_order],
        energy |-> energy_added]

\* Battery.charge: the battery after it, and energy_added
charge(battery, power, duration) ==
    LET pw == min(power, battery.charge_rate)
        energy_add_order == (kWh(pw) * duration * 9) \div (60 * 10)
        energy_added == min(energy_add_order,
                            battery.capacity - battery.state_of_charge)
    IN [battery |-> [battery EXCEPT !.state_of_charge =
                        min(@ + energy_add_order, battery.capacity)],
        energy |-> energy_added]

\* Battery.discharge: the battery after it, and energy_removed
discharge(battery, power, duration) ==
    LET pw == min(power, battery.discharge_rate)
        energy_remove_order == (kWh(pw) * duration * 10) \div (60 * 9)
        energy_removed == min(energy_remove_order, battery.state_of_charge)
    IN [battery |-> [battery EXCEPT !.state_of_charge =
                        max(@ - energy_remove_order, 0)],
        energy |-> energy_removed]

\* Battery.reset
battery_reset(battery) ==
    [battery EXCEPT !.state_of_charge = min(battery.initial_charge, battery.capacity)]

\* BatteryEnv.__init__ with its defaults; market_data is the column
\* Market_Price of the csv file.
BatteryEnv(data) ==
    [battery |-> Battery(100, 50, 50, 50),
     market_data |-> data,
     dispatch_prices |-> <<>>,
     total_profit |-> 0,
     current_step |-> 0,
     episode_length |-> Len(data)]

\* market_data.iloc[i]
iloc(data, i) == [Market_Price |-> data[i + 1]]

\* BatteryEnv.get_info: the environment after it (total_profit), and the dict
get_info(self, profit_delta) ==
    LET total == self.total_profit + profit_delta IN
    [env |-> [self EXCEPT !.total_profit = total],
     info |-> [total_profit |-> total,
               profit_delta |-> profit_delta,
               battery_soc |-> self.battery.state_of_charge,
               max_charge_rate |-> self.battery.charge_rate,
               max_discharge_rate |-> self.battery.discharge_rate,
               remaining_steps |-> Len(self.market_data) - self.current_step - 1]]

\* BatteryEnv.reset(start_step, episode_length), initial_soc None
reset(self, start_step, episode_length) ==
    LET e == [self EXCEPT
                !.current_step = start_step,
                !.total_profit = 0,
                !.episode_length = IF episode_length # 0 THEN episode_length
                                   ELSE Len(self.market_data) - start_step,
                !.battery.state_of_charge =
                    min(self.battery.initial_charge, self.battery.capacity),
                !.dispatch_prices = <<>>]
        got == get_info(e, 0)
    IN [env |-> got.env, state |-> iloc(e.market_data, e.current_step),
        info |-> got.info]

\* deque(maxlen=n).append
deque_append(dq, x, maxlen) ==
    IF Len(dq) < maxlen THEN Append(dq, x) ELSE Append(Tail(dq), x)

\* BatteryEnv.process_action: spot_price is the mean of the dispatch prices,
\* given as their sum and their number. The battery after it, and the profit.
process_action(battery, quantity, price_sum, price_count) ==
    LET duration == 5
        money(energy) == energy * duration * price_sum * (60 \div price_count)
    IN IF quantity > 0
       THEN LET c == charge(battery, quantity, duration)
            IN [battery |-> c.battery, profit_delta |-> -money(c.energy)]
       ELSE IF quantity < 0
       THEN LET d == discharge(battery, -quantity, duration)
            IN [battery |-> d.battery, profit_delta |-> money(d.energy)]
       ELSE [battery |-> battery, profit_delta |-> 0]

NoState == [Market_Price |-> -1]

\* BatteryEnv.step: state NoState stands for the (None, None) it returns
step(self, quantity) ==
    IF self.current_step >= Len(self.market_data) - 1
    THEN [env |-> self, state |-> NoState, info |-> NoState]
    ELSE LET dispatch_price == iloc(self.market_data, self.current_step).Market_Price
             prices == deque_append(self.dispatch_prices, dispatch_price, 6)
             acted == process_action(self.battery, quantity, Sum(prices), Len(prices))
             e == [self EXCEPT !.dispatch_prices = prices,
                              !.battery = acted.battery,
                              !.current_step = @ + 1]
             got == get_info(e, acted.profit_delta)
         IN [env |-> got.env, state |-> iloc(e.market_data, e.current_step),
             info |-> got.info]

\* ------------------------------------------------------------ bot/policies
SimplePolicy(quantity) ==
    [class_name |-> "SimplePolicy", quantity |-> quantity,
     window_size |-> 0, price_history |-> <<>>]

MovingAveragePolicy(window_size) ==
    [class_name |-> "MovingAveragePolicy", quantity |-> 0,
     window_size |-> window_size, price_history |-> <<>>]

\* policy.act(state, info): the policy after it, and the quantity
act(policy, state, info) ==
    IF policy.class_name = "SimplePolicy"
    THEN [policy |-> policy, action |-> policy.quantity]
    ELSE LET market_price == state.Market_Price
             history == deque_append(policy.price_history, market_price,
                                     policy.window_size)
             pol == [policy EXCEPT !.price_history = history]
         IN IF Len(history) = policy.window_size
            THEN IF market_price * Len(history) > Sum(history)
                 THEN [policy |-> pol, action |-> -info.max_discharge_rate]
                 ELSE [policy |-> pol, action |-> info.max_charge_rate]
            ELSE [policy |-> pol, action |-> 0]

\* --------------------------------------------------------- bot/evaluate.py
\* random.seed and random.randint: the generator has RngStates states,
\* seeding puts it in the state of the seed, a draw reads the state and
\* moves it on. rng holds the generators of random and of numpy.random.
set_seedKept(rng, seed) == rng

set_seed(rng, seed) ==
    [random |-> seed % RngStates, np_random |-> seed % RngStates]

randint(rng, a, b) ==
    [value |-> a + (rng.random % (b - a + 1)),
     rng |-> [rng EXCEPT !.random = (@ + 1) % RngStates]]

NoLists == [profits |-> <<>>, socs |-> <<>>, market_prices |-> <<>>, actions |-> <<>>]

\* run_trial, the loop of lines 24-34
RECURSIVE while_True(_, _, _, _, _)
while_True(battery_environment, policy, state, info, lists) ==
    LET acted == act(policy, state, info)
        action == acted.action
        stepped == step(battery_environment, action)
    IN IF stepped.state = NoState
       THEN [env |-> stepped.env, policy |-> acted.policy, lists |-> lists]
       ELSE while_True(stepped.env, acted.policy, stepped.state, stepped.info,
              [profits |-> Append(lists.profits, stepped.info.total_profit),
               socs |-> Append(lists.socs, stepped.info.battery_soc),
               market_prices |-> Append(lists.market_prices, stepped.state.Market_Price),
               actions |-> Append(lists.actions, action)])

\* run_trial: the four lists, and the environment and the policy after it
run_trial(battery_environment, policy, start_step, episode_length) ==
    LET r == reset(battery_environment, start_step, episode_length)
    IN while_True(r.env, policy, r.state, r.info, NoLists)

\* np.mean of a list of whole numbers: the rational num/den, nan if den = 0
np_mean(xs) == [num |-> Sum(xs), den |-> Len(xs)]

\* np.std of a list: the square root of the mean of the squared deviations
\* from the mean; the deviations are kept, each times the length.
np_std(xs) == [n |-> Len(xs), deviations |-> [i \in 1..Len(xs) |-> Len(xs) * xs[i] - Sum(xs)]]

\* the policy classes and the parameters of config.json or of --param
policy_class(config) ==
    IF config.class_name = "SimplePolicy"
    THEN SimplePolicy(config.parameters.quantity)
    ELSE MovingAveragePolicy(config.parameters.window_size)

\* ---------------------------------------------------------------- state
Procs == {"A", "B"}     \* poll invocations that can be alive at one time
Cwds == {"d1", "d2"}    \* working directories a poll process is started in

VARIABLES
    table,        \* DynamoDB table: set of items, one python dict each
    images,       \* docker images, by tag
    containers,   \* docker containers, by the tag of their image
    outfile,      \* outfile[d]: d/output/output.json
    repoDir,      \* repoDir[d][r]: the revision checked out in d/submissions/<r>
    outputDir,    \* outputDir[d]: d/output exists
    pc,           \* position of each invocation in the code
    frame,        \* local variables of each invocation, see EmptyFrame
    result,       \* how the last invocation ended: "done" or the uncaught error
    termAtStart,  \* keys whose record was terminal when the invocation began
    discovered,   \* keys of the eligible tags the invocation listed
    evaluated,    \* keys for which the invocation called run_evaluation
    faulted,      \* a store operation of the invocation did not succeed
    env,          \* what the environment of this run can do, never changed
    bot,          \* runs of bot/evaluate.py: their arguments and their locals
    db,           \* calls of DBClient.submit by a caller of its own: the
                  \* dict objects, and the position in the method
    cell          \* a Battery, the calls made on it and what the last returned

vars == <<table, images, containers, outfile, repoDir, outputDir, pc, frame,
          result, termAtStart, discovered, evaluated, faulted, env, bot, db, cell>>
worldVars == <<table, images, containers, outfile, repoDir, outputDir, env, bot, db, cell>>
backendVars == <<table, images, containers, outfile, repoDir, outputDir, pc,
                 frame, result, termAtStart, discovered, evaluated, faulted, env>>
obsVars   == <<result, termAtStart, discovered, evaluated, faulted>>

RepoNames == {REPOS[i] : i \in 1..Len(REPOS)}
NoFile == [k |-> "nofile"]
NotRun == [k |-> "notrun"]
NoDir == "absent"         \* os.path.exists(repo_dir) is False
Terminal == {S("success"), S("failed")}

\* The locals of submit_output and of the functions it calls, as they are
\* while no submission is being processed.
NoCall ==
    [submission |-> base_submission("", ""),
     output |-> None,     \* data of get_submission_output, output of submit_output
     exc |-> None,        \* exception in flight or caught, None if none
     uuid |-> 0,          \* docker_image_tag, 0 before line 14
     exit |-> "none",     \* state of `container` while save_docker_submission
                          \* holds it: "running", exited "zero" or "nonzero"
     wrote |-> NotRun]    \* output.json as the sandboxed program of this
                          \* call wrote it, NoFile if it wrote none

\* Runs of evaluate.py: each is a python process of its own, started one
\* after the other with the same command line and the same files.
Runs == {1, 2}
Prices == {1, 2}
MarketData == SeqsUpTo(Prices, MaxData) \ {<<>>}
PolicyConfigs ==
    {[class_name |-> "SimplePolicy", parameters |-> [quantity |-> 10, window_size |-> 0]],
     [class_name |-> "MovingAveragePolicy", parameters |-> [quantity |-> 0, window_size |-> 2]]}
Args == [trials : 1..MaxTrials, seed : 0..MaxSeed, data : MarketData,
         policy_config : PolicyConfigs]
NoArgs == [trials |-> 0, seed |-> 0, data |-> <<>>,
           policy_config |-> [class_name |-> "", parameters |-> [quantity |-> 0, window_size |-> 0]]]

\* The locals of main of evaluate.py before line 54; entropy is the state
\* the interpreter gave the generators when it started.
NotStarted(entropy) ==
    [at |-> "main",
     entropy |-> entropy,
     rng |-> [random |-> entropy, np_random |-> entropy],
     policy |-> SimplePolicy(0),
     battery_environment |-> BatteryEnv(<<>>),
     trial |-> 0,
     start_steps |-> <<>>,
     episode_lengths |-> <<>>,
     total_profits |-> <<>>,
     all_trials |-> <<>>,
     outcome |-> [mean_profit |-> np_mean(<<>>), std_profit |-> np_std(<<>>)]]

NoBot == [args |-> NoArgs, run |-> [r \in Runs |-> NotStarted(0)]]

\* Calls of DBClient.submit.  heap holds the dict objects by reference: the
\* caller's submissions first, then the dicts the method creates; calls are
\* the references the caller still has to submit, returned what each call
\* returned or raised.
NoDb == [at |-> "off", heap |-> <<>>, calls |-> <<>>, cloned_submission |-> 0,
         returned |-> <<>>]

\* The dicts a caller passes: with or without the two keys, with an int or
\* a float score.
Submissions ==
    {[key \in keys |->
        CASE key = "team" -> S(REPOS[1])
          [] key = "commit_hash" -> S("c1")
          [] key = "score" -> score
          [] key = "status" -> status] :
     keys \in {ks \in SUBSET {"team", "commit_hash", "score", "status"} :
                  {"score", "status"} \subseteq ks},
     score \in {I(0), F(125)},
     status \in {S("pending"), S("success")}}

\* The references of the caller's dicts.
CallerRefs == {1, 2}

\* dict.copy() and the dict comprehension of convert_floats_to_decimal: a
\* new object; the heap after it, and the reference.
new_dict(heap, value) == [heap |-> Append(heap, value), ref |-> Len(heap) + 1]

\* submit line 52: the object cloned_submission names
clonedAlias(heap, submission) == [heap |-> heap, ref |-> submission]

cloned(heap, submission) ==
    LET copied == new_dict(heap, heap[submission])
    IN new_dict(copied.heap, convert_floats_to_decimal(D(copied.heap[copied.ref])).d)

\* d[key] = value
setitem(heap, ref, key, value) ==
    [heap EXCEPT ![ref] = [k \in DOMAIN @ \cup {key} |-> IF k = key THEN value ELSE @[k]]]

\* Batteries and the calls made on them: capacity and initial_charge in kWh,
\* powers in kW at and above the rates, durations in minutes.
Batteries ==
    {Battery(capacity, 50, 50, initial_charge) :
        capacity \in {1, 100}, initial_charge \in {0, 50, 150}}
Powers == {0, 10, 50, 60}
Durations == {0, 5, 600}
NoCell == [battery |-> Battery(0, 0, 0, 0), calls |-> MaxCalls,
           last |-> [op |-> "none", returned |-> 0]]

\* The locals of main on top: the two loops.
EmptyFrame ==
    [ri |-> 1, tagsLeft |-> <<>>, cur |-> NoCommit, call |-> NoCall]

\* os.getcwd() of run_evaluation line 43; the output mount is <cwd>/output
\* and repo_dir is submissions/<repo> under the working directory.
cwdSame(p) == env.cwd["A"]

cwd(p) == env.cwd[p]

repo_name(p) == REPOS[frame[p].ri]
commit_sha(p) == frame[p].cur
CurKey(p) == <<repo_name(p), commit_sha(p)>>
call(p) == frame[p].call
StatusOf(tbl, key) == {r["status"] : r \in get_item(tbl, key[1], key[2])}
TerminalKeys(tbl) ==
    {<<r["team"].s, r["commit_hash"].s>> : r \in {x \in tbl : x["status"] \in Terminal}}

\* The services the pipeline calls; each can answer a call with an error.
Services == {"github", "store", "docker"}

StartBesidesRepoDir ==
    /\ table = {}
    /\ images = {}
    /\ containers = {}
    /\ outfile = [d \in Cwds |-> NoFile]
    /\ outputDir = [d \in Cwds |-> TRUE]
    /\ pc = [p \in Procs |-> "idle"]
    /\ frame = [p \in Procs |-> EmptyFrame]
    /\ result = [p \in Procs |-> "none"]
    /\ termAtStart = [p \in Procs |-> {}]
    /\ discovered = [p \in Procs |-> {}]
    /\ evaluated = [p \in Procs |-> {}]
    /\ faulted = [p \in Procs |-> FALSE]

Start ==
    /\ StartBesidesRepoDir
    /\ repoDir = [d \in Cwds |-> [r \in RepoNames |-> NoDir]]

\* The scheduler triggers main again and again; every service can fail;
\* GitHub answers with any listing.
Init ==
    /\ Start
    /\ env = [faults |-> Services, hang |-> TRUE, reinvoke |-> TRUE, head |-> "c1",
              listings |-> Listings, cwd |-> [p \in Procs |-> "d1"]]
    /\ bot = NoBot
    /\ db = NoDb
    /\ cell = NoCell

\* Two invocations triggered once each, overlapping; the services answer
\* every call; each repository has the tags v1.0 and submission-1.
InitOverlap ==
    /\ Start
    /\ env = [faults |-> {}, hang |-> FALSE, reinvoke |-> FALSE, head |-> "c1",
              listings |-> {<<[name |-> V10, sha |-> "c1"], [name |-> Sub1, sha |-> "c1"]>>},
              cwd |-> [p \in Procs |-> "d1"]]
    /\ bot = NoBot
    /\ db = NoDb
    /\ cell = NoCell

\* The same two invocations, each started in a working directory of its own.
InitMounts ==
    /\ Start
    /\ env = [faults |-> {}, hang |-> FALSE, reinvoke |-> FALSE, head |-> "c1",
              listings |-> {<<[name |-> V10, sha |-> "c1"], [name |-> Sub1, sha |-> "c1"]>>},
              cwd |-> [A |-> "d1", B |-> "d2"]]
    /\ bot = NoBot
    /\ db = NoDb
    /\ cell = NoCell

\* One invocation; the services answer every call; the repositories have
\* the tags of one listing, at two commits, the later of which is the head
\* of the default branch; the sandboxed program is the submitter's and may
\* never exit.
MoreCommits == {"c1", "c2"}

InitFair ==
    /\ Start
    /\ \E listing \in ListingsOf(TagsOf(MoreCommits)) :
          env = [faults |-> {}, hang |-> TRUE, reinvoke |-> FALSE, head |-> "c2",
                 listings |-> {listing}, cwd |-> [p \in Procs |-> "d1"]]
    /\ bot = NoBot
    /\ db = NoDb
    /\ cell = NoCell

\* One invocation in a working directory where submissions/<repo> may have
\* been left behind by someone else; every service can fail; each
\* repository has the tag submission-1.
LeftBehind == "left"

InitDirs ==
    /\ StartBesidesRepoDir
    /\ \E dirs \in [RepoNames -> {NoDir, LeftBehind}] :
          repoDir = [d \in Cwds |-> IF d = "d1" THEN dirs ELSE [r \in RepoNames |-> NoDir]]
    /\ env = [faults |-> Services, hang |-> FALSE, reinvoke |-> FALSE, head |-> "c1",
              listings |-> {<<[name |-> Sub1, sha |-> "c1"]>>},
              cwd |-> [p \in Procs |-> "d1"]]
    /\ bot = NoBot
    /\ db = NoDb
    /\ cell = NoCell

Goto(p, to) == pc' = [pc EXCEPT ![p] = to]
SetCall(p, c) == frame' = [frame EXCEPT ![p].call = c]

\* An exception leaves main: the invocation ends with it.
Uncaught(p, kind) ==
    /\ Goto(p, "idle")
    /\ frame' = [frame EXCEPT ![p] = EmptyFrame]
    /\ result' = [result EXCEPT ![p] = kind]

\* An exception is raised inside the try of submit_output; `to` is where
\* control goes: the finally of run_evaluation or the except of
\* submit_output.
Raise(p, kind, to) ==
    /\ SetCall(p, [call(p) EXCEPT !.exc = S(kind), !.exit = "none"])
    /\ Goto(p, to)

\* main, lines 102-107: a new invocation begins.  Without re-invocation the
\* two invocations begin before either has ended, so that they overlap.
main(p) ==
    /\ pc[p] = "idle"
    /\ env.reinvoke \/ \A q \in Procs : result[q] = "none"
    /\ Goto(p, "for_repo")
    /\ result' = [result EXCEPT ![p] = "none"]
    /\ termAtStart' = [termAtStart EXCEPT ![p] = TerminalKeys(table)]
    /\ discovered' = [discovered EXCEPT ![p] = {}]
    /\ evaluated' = [evaluated EXCEPT ![p] = {}]
    /\ faulted' = [faulted EXCEPT ![p] = FALSE]
    /\ UNCHANGED <<worldVars, frame>>

\* main, line 109 after the last repository: the invocation runs to its end.
main_return(p) ==
    /\ pc[p] = "for_repo"
    /\ frame[p].ri > Len(REPOS)
    /\ Goto(p, "idle")
    /\ frame' = [frame EXCEPT ![p] = EmptyFrame]
    /\ result' = [result EXCEPT ![p] = "done"]
    /\ UNCHANGED <<worldVars, termAtStart, discovered, evaluated, faulted>>

\* check_submission_tags: the listing answered with 200, another status
\* (no tags), or requests.get raised.
check_submission_tags(p) ==
    /\ pc[p] = "for_repo"
    /\ frame[p].ri <= Len(REPOS)
    /\ \/ \E listing \in env.listings :
            LET submission_tags == FilterTags(FirstPage(listing)) IN
            /\ frame' = [frame EXCEPT ![p].tagsLeft = CommitShas(submission_tags)]
            /\ discovered' = [discovered EXCEPT ![p] =
                   @ \cup {<<repo_name(p), submission_tags[i].sha>> :
                             i \in 1..Len(submission_tags)}]
            /\ Goto(p, "for_tag")
            /\ UNCHANGED result
       \/ /\ "github" \in env.faults
          /\ frame' = [frame EXCEPT ![p].tagsLeft = <<>>]
          /\ Goto(p, "for_tag")
          /\ UNCHANGED <<discovered, result>>
       \/ /\ "github" \in env.faults
          /\ Uncaught(p, "ConnectionError")
          /\ UNCHANGED discovered
    /\ UNCHANGED <<worldVars, termAtStart, evaluated, faulted>>

\* main, line 112: next tag of the repository, or on to the next repository.
for_tag(p) ==
    /\ pc[p] = "for_tag"
    /\ IF frame[p].tagsLeft = <<>>
       THEN /\ frame' = [frame EXCEPT ![p].ri = @ + 1, ![p].cur = NoCommit]
            /\ Goto(p, "for_repo")
       ELSE /\ frame' = [frame EXCEPT ![p].cur = Head(frame[p].tagsLeft),
                                      ![p].tagsLeft = Tail(@)]
            /\ Goto(p, "gate")
    /\ UNCHANGED <<worldVars, obsVars>>

\* main, line 113: the dedup gate.
gate(p) ==
    /\ pc[p] = "gate"
    /\ \/ /\ IF is_already_submitted(table, repo_name(p), commit_sha(p))
             THEN Goto(p, "for_tag")
             ELSE Goto(p, "submit_pending")
          /\ UNCHANGED <<frame, result, faulted>>
       \/ /\ "store" \in env.faults
          /\ Uncaught(p, "ClientError")
          /\ faulted' = [faulted EXCEPT ![p] = TRUE]
    /\ UNCHANGED <<worldVars, termAtStart, discovered, evaluated>>

\* db_client.submit(sub): put_item answers 200 (True), another status
\* (False), or raises; okCall and failCall are the locals the caller goes on
\* with, at okPc and failPc.  The asserts hold of every dict submit_output
\* builds, as no step of it removes a key of base_submission.
DoSubmit(p, sub, okPc, okCall, failPc, failCall) ==
    /\ \/ \E t \in Times :
            /\ SubmitAsserts(sub)
            /\ table' = put_item(table, cloned_submission(sub, t))
            /\ Goto(p, okPc)
            /\ SetCall(p, okCall)
            /\ UNCHANGED <<result, faulted>>
       \/ /\ "store" \in env.faults
          /\ Goto(p, failPc)
          /\ SetCall(p, failCall)
          /\ faulted' = [faulted EXCEPT ![p] = TRUE]
          /\ UNCHANGED <<table, result>>
       \/ /\ "store" \in env.faults
          /\ Uncaught(p, "ClientError")
          /\ faulted' = [faulted EXCEPT ![p] = TRUE]
          /\ UNCHANGED table
    /\ UNCHANGED <<images, containers, outfile, repoDir, outputDir, env, bot, db, cell,
                   termAtStart, discovered, evaluated>>

\* submit_output, lines 66-76: the pending placeholder.
submit_pending(p) ==
    /\ pc[p] = "submit_pending"
    /\ LET sub == base_submission(repo_name(p), commit_sha(p))
           c == [call(p) EXCEPT !.submission = sub]
       IN DoSubmit(p, sub, "run_evaluation", c, "submit_not_success", c)

\* submit_output, lines 77-82: the placeholder was not accepted.
submit_not_success(p) ==
    /\ pc[p] = "submit_not_success"
    /\ LET sub == [base_submission(repo_name(p), commit_sha(p)) EXCEPT
                     !["status"] = S("failed"),
                     !["error"] = S("Failed to submit preliminary submission to database")]
           c == [call(p) EXCEPT !.submission = sub]
       IN DoSubmit(p, sub, "run_evaluation", c, "run_evaluation", c)

\* -------------------------------------------------- the sandboxed program
Scores == {125}
Trial == D([profits |-> L(<<F(5)>>), start_step |-> I(0), episode_length |-> I(1)])

\* The dict evaluate.py dumps (the keys the backend reads, and the score).
GoodArtifact(score) ==
    [score |-> F(score), mean_profit |-> F(score),
     trials |-> L(<<Trial>>), main_trial_idx |-> I(0)]

\* The keys an artifact may carry on top: the program is the submitter's.
ForeignKeys == [team |-> S(REPOS[2]), commit_hash |-> S("c1")]

Artifacts ==
    {D(GoodArtifact(sc)) : sc \in Scores}
    \cup {D([score |-> F(sc)]) : sc \in Scores}
    \cup {D([key \in DOMAIN GoodArtifact(sc) \cup DOMAIN ForeignKeys |->
              IF key \in DOMAIN ForeignKeys THEN ForeignKeys[key]
              ELSE GoodArtifact(sc)[key]]) : sc \in Scores}

\* Contents output.json can have: text that is JSON, text that is not.
NotJson == [k |-> "text"]
Json(v) == [k |-> "json", v |-> v]
FileContents == {Json(a) : a \in Artifacts} \cup {NotJson}

\* ---------------------------------------------------- evaluation, poll.py
\* submit_output line 84-85 and run_evaluation lines 39-49.
run_evaluation(p) ==
    /\ pc[p] = "run_evaluation"
    /\ evaluated' = [evaluated EXCEPT ![p] = @ \cup {CurKey(p)}]
    /\ LET c == [NoCall EXCEPT !.submission = base_submission(repo_name(p), commit_sha(p))] IN
       IF repoDir[cwd(p)][repo_name(p)] # NoDir
       THEN /\ SetCall(p, [c EXCEPT !.exc = S("ValueError")])
            /\ Goto(p, "except")
       ELSE /\ SetCall(p, c)
            /\ Goto(p, "clone")
    /\ UNCHANGED <<worldVars, result, termAtStart, discovered, faulted>>

\* run_evaluation line 51: os.system(git clone) creates repo_dir or fails
\* without raising.  The command of line 47 names no revision and no step
\* checks one out: repo_dir holds the head of the default branch.
clone(p) ==
    /\ pc[p] = "clone"
    /\ \/ repoDir' = [repoDir EXCEPT ![cwd(p)][repo_name(p)] = env.head]
       \/ "github" \in env.faults /\ UNCHANGED repoDir
    /\ Goto(p, "save_docker_submission")
    /\ UNCHANGED <<table, images, containers, outfile, outputDir, env, bot, db, cell, frame, obsVars>>

\* ------------------------------------------------------- runner, dock.py
FreeUuids == (1..MaxUuid) \ (images \cup containers \cup {frame[q].call.uuid : q \in Procs})
Min(set) == CHOOSE x \in set : \A y \in set : x <= y

\* save_docker_submission lines 7-14: the two checks, then the fresh tag.
save_docker_submission(p) ==
    /\ pc[p] = "save_docker_submission"
    /\ IF ~outputDir[cwd(p)] \/ repoDir[cwd(p)][repo_name(p)] = NoDir
       THEN Raise(p, "ValueError", "finally")
       ELSE /\ FreeUuids # {}
            /\ SetCall(p, [call(p) EXCEPT !.uuid = Min(FreeUuids)])
            /\ Goto(p, "build")
    /\ UNCHANGED <<worldVars, obsVars>>

\* line 16: client.images.build
build(p) ==
    /\ pc[p] = "build"
    /\ \/ /\ images' = images \cup {call(p).uuid}
          /\ Goto(p, "run")
          /\ UNCHANGED frame
       \/ /\ "docker" \in env.faults
          /\ Raise(p, "BuildError", "finally")
          /\ UNCHANGED images
    /\ UNCHANGED <<table, containers, outfile, repoDir, outputDir, env, bot, db, cell, obsVars>>

\* lines 25-29: client.containers.run(detach=True) creates and starts the
\* container; it can raise before the create or at the start.
run(p) ==
    /\ pc[p] = "run"
    /\ \/ /\ containers' = containers \cup {call(p).uuid}
          /\ Goto(p, "container")
          /\ SetCall(p, [call(p) EXCEPT !.exit = "running"])
       \/ /\ "docker" \in env.faults
          /\ Raise(p, "APIError", "finally")
          /\ containers' = containers \cup {call(p).uuid}
       \/ /\ "docker" \in env.faults
          /\ Raise(p, "APIError", "finally")
          /\ UNCHANGED containers
    /\ UNCHANGED <<table, images, outfile, repoDir, outputDir, env, bot, db, cell, obsVars>>

\* The exit status of a program that has exited.
ExitStatus == {"zero", "nonzero"}

\* The sandboxed program, python evaluate.py of the submitter's image, while
\* the host is at line 31: it writes output.json, with whatever content, or
\* does not, and exits with a status; or it never exits.
container(p) ==
    /\ pc[p] = "container"
    /\ \/ \E content \in FileContents, status \in ExitStatus :
            /\ outfile' = [outfile EXCEPT ![cwd(p)] = content]
            /\ SetCall(p, [call(p) EXCEPT !.wrote = content, !.exit = status])
       \/ \E status \in ExitStatus :
            /\ UNCHANGED outfile
            /\ SetCall(p, [call(p) EXCEPT !.wrote = NoFile, !.exit = status])
       \/ /\ env.hang
          /\ UNCHANGED outfile
          /\ SetCall(p, [call(p) EXCEPT !.wrote = NoFile])
    /\ Goto(p, "logs")
    /\ UNCHANGED <<table, images, containers, repoDir, outputDir, env, bot, db, cell, obsVars>>

\* lines 31-32: container.logs(stream=True) yields lines until the container
\* exits, so the loop ends when the program has exited; or the stream raises.
logs(p) ==
    /\ pc[p] = "logs"
    /\ \/ /\ call(p).exit # "running"
          /\ Goto(p, "stop")
          /\ UNCHANGED frame
       \/ /\ "docker" \in env.faults
          /\ Raise(p, "APIError", "finally")
    /\ UNCHANGED <<worldVars, obsVars>>

\* line 34: container.stop()
stop(p) ==
    /\ pc[p] = "stop"
    /\ \/ /\ Goto(p, "remove")
          /\ UNCHANGED frame
       \/ /\ "docker" \in env.faults
          /\ Raise(p, "APIError", "finally")
    /\ UNCHANGED <<worldVars, obsVars>>

\* line 35: container.remove()
remove(p) ==
    /\ pc[p] = "remove"
    /\ \/ /\ containers' = containers \ {call(p).uuid}
          /\ Goto(p, "images_remove")
          /\ UNCHANGED frame
       \/ /\ "docker" \in env.faults
          /\ Raise(p, "APIError", "finally")
          /\ UNCHANGED containers
    /\ UNCHANGED <<table, images, outfile, repoDir, outputDir, env, bot, db, cell, obsVars>>

\* line 37: client.images.remove(docker_image_tag)
images_remove(p) ==
    /\ pc[p] = "images_remove"
    /\ \/ /\ images' = images \ {call(p).uuid}
          /\ Goto(p, "open")
          /\ SetCall(p, [call(p) EXCEPT !.exit = "none"])
       \/ /\ "docker" \in env.faults
          /\ Raise(p, "APIError", "finally")
          /\ UNCHANGED images
    /\ UNCHANGED <<table, containers, outfile, repoDir, outputDir, env, bot, db, cell, obsVars>>

\* ---------------------------------------------------- extractor, dock.py
\* get_submission_output lines 44-45: open and json.load
open(p) ==
    /\ pc[p] = "open"
    /\ IF outfile[cwd(p)] = NoFile
       THEN Raise(p, "FileNotFoundError", "finally")
       ELSE IF outfile[cwd(p)].k # "json"
       THEN Raise(p, "JSONDecodeError", "finally")
       ELSE /\ SetCall(p, [call(p) EXCEPT !.output = outfile[cwd(p)].v])
            /\ Goto(p, "os_remove")
    /\ UNCHANGED <<worldVars, obsVars>>

\* get_submission_output line 47: os.remove
os_remove(p) ==
    /\ pc[p] = "os_remove"
    /\ IF outfile[cwd(p)] = NoFile
       THEN /\ Raise(p, "FileNotFoundError", "finally")
            /\ UNCHANGED outfile
       ELSE /\ outfile' = [outfile EXCEPT ![cwd(p)] = NoFile]
            /\ Goto(p, "finally")
            /\ UNCHANGED frame
    /\ UNCHANGED <<table, images, containers, repoDir, outputDir, env, bot, db, cell, obsVars>>

\* ------------------------------------------- back in poll.py: the record
\* run_evaluation line 54: finally rm -rf repo_dir, then the exception goes
\* on to the except of submit_output, or output is returned.
finallyKept(p) ==
    /\ pc[p] = "finally"
    /\ Goto(p, IF call(p).exc # None THEN "except" ELSE "merge")
    /\ UNCHANGED <<table, images, containers, outfile, repoDir, outputDir, env, bot, db, cell, frame, obsVars>>

finally(p) ==
    /\ pc[p] = "finally"
    /\ repoDir' = [repoDir EXCEPT ![cwd(p)][repo_name(p)] = NoDir]
    /\ Goto(p, IF call(p).exc # None THEN "except" ELSE "merge")
    /\ UNCHANGED <<table, images, containers, outfile, outputDir, env, bot, db, cell, frame, obsVars>>

\* python's seq[idx] on a list: negative indices count from the end.
InRange(items, idx) == -Len(items) <= idx /\ idx < Len(items)
Index(items, idx) == IF idx >= 0 THEN items[idx + 1] ELSE items[Len(items) + idx + 1]

\* lines 86-87: for k, v in output.items(): submission[k] = v
Update(sub, out) ==
    [key \in DOMAIN sub \cup DOMAIN out |->
        IF key \in DOMAIN out THEN out[key] ELSE sub[key]]

\* What lines 86-90 raise on this output, "" if nothing.
MergeError(sub, out) ==
    IF out.k # "dict" THEN "AttributeError"
    ELSE LET merged == Update(sub, out.d) IN
         IF "trials" \notin DOMAIN merged \/ "main_trial_idx" \notin DOMAIN merged
         THEN "KeyError"
         ELSE IF merged["trials"].k # "list" \/ merged["main_trial_idx"].k # "int"
         THEN "TypeError"
         ELSE IF ~InRange(merged["trials"].items, merged["main_trial_idx"].n)
         THEN "IndexError"
         ELSE ""

\* lines 86-92 when nothing raises
Merged(sub, out) ==
    LET merged == Update(sub, out.d)
        main_trial == Index(merged["trials"].items, merged["main_trial_idx"].n)
    IN [key \in (DOMAIN merged \cup {"main_trial"}) \ {"trials"} |->
          IF key = "status" THEN S("success")
          ELSE IF key = "main_trial" THEN main_trial
          ELSE merged[key]]

\* submit_output lines 86-92
merge(p) ==
    /\ pc[p] = "merge"
    /\ LET sub == base_submission(repo_name(p), commit_sha(p))
           err == MergeError(sub, call(p).output) IN
       IF err # ""
       THEN Raise(p, err, "except")
       ELSE /\ SetCall(p, [call(p) EXCEPT !.submission = Merged(sub, call(p).output)])
            /\ Goto(p, "submit_final")
    /\ UNCHANGED <<worldVars, obsVars>>

\* The classes  except Exception  catches: every error the evaluation raises
\* derives from Exception.
ExceptionClasses ==
    {"ValueError", "BuildError", "APIError", "FileNotFoundError",
     "JSONDecodeError", "AttributeError", "KeyError", "TypeError", "IndexError"}

CatchesOnlyValueError(kind) == kind = "ValueError"

Catches(kind) == kind \in ExceptionClasses

\* str(e) of line 96: the message of the exception. No code path reads the
\* text, one string stands for it.
str(exc) == S("str(e)")

\* submit_output lines 93-98
except(p) ==
    /\ pc[p] = "except"
    /\ IF Catches(call(p).exc.s)
       THEN /\ SetCall(p, [call(p) EXCEPT !.submission =
                  [base_submission(repo_name(p), commit_sha(p)) EXCEPT
                      !["error"] = str(call(p).exc),
                      !["error_traceback"] = S("Traceback (most recent call last)"),
                      !["status"] = S("failed")]])
            /\ Goto(p, "submit_final")
            /\ UNCHANGED result
       ELSE Uncaught(p, call(p).exc.s)
    /\ UNCHANGED <<worldVars, termAtStart, discovered, evaluated, faulted>>

\* submit_output line 100: the terminal write; its result is not looked at,
\* and submit_output returns.
submit_final(p) ==
    /\ pc[p] = "submit_final"
    /\ DoSubmit(p, call(p).submission, "for_tag", NoCall, "for_tag", NoCall)

\* ------------------------------------------------------ bot/evaluate.py
SetRun(r, locals) ==
    /\ bot' = [bot EXCEPT !.run[r] = locals]
    /\ UNCHANGED <<backendVars, db, cell>>

\* main lines 54-79: the policy, the environment, set_seed(args.seed) and
\* the first trial, which is the whole file.
evaluate_main(r) ==
    LET args == bot.args
        me == bot.run[r]
    IN /\ me.at = "main"
       /\ \A q \in Runs : q < r => bot.run[q].at = "done"
       /\ SetRun(r, [me EXCEPT
             !.policy = policy_class(args.policy_config),
             !.battery_environment = BatteryEnv(args.data),
             !.rng = set_seed(me.rng, args.seed),
             !.start_steps = <<0>>,
             !.episode_lengths = <<Len(args.data)>>,
             !.at = "for_trial"])

\* One pass of the loop of lines 82-88.
for_trial(r) ==
    LET args == bot.args
        me == bot.run[r]
        length == Len(me.battery_environment.market_data)
        seeded == set_seed(me.rng, args.seed + me.trial)
        start_step == randint(seeded, 0, length - 1)
        episode_length == randint(start_step.rng, 1, length - start_step.value)
    IN /\ me.at = "for_trial"
       /\ me.trial < args.trials - 1
       /\ SetRun(r, [me EXCEPT
             !.rng = episode_length.rng,
             !.episode_lengths = Append(@, episode_length.value),
             !.start_steps = Append(@, start_step.value),
             !.trial = @ + 1])

\* One pass of the loop of lines 90-101, entered when the loop above ends.
for_zip(r) ==
    LET args == bot.args
        me == bot.run[r]
        i == Len(me.all_trials) + 1
        start_step == me.start_steps[i]
        episode_length == me.episode_lengths[i]
        ran == run_trial(me.battery_environment, me.policy, start_step, episode_length)
    IN /\ me.at = "for_trial"
       /\ me.trial >= args.trials - 1
       /\ i <= Len(me.start_steps)
       /\ SetRun(r, [me EXCEPT
             !.battery_environment = ran.env,
             !.policy = ran.policy,
             !.total_profits = @ \o ran.lists.profits,
             !.all_trials = Append(@,
                 [actions |-> ran.lists.actions,
                  profits |-> ran.lists.profits,
                  socs |-> ran.lists.socs,
                  market_prices |-> ran.lists.market_prices,
                  start_step |-> start_step,
                  episode_length |-> episode_length])])

\* main lines 103-120: the outcome is computed and written.
json_dump(r) ==
    LET args == bot.args
        me == bot.run[r]
    IN /\ me.at = "for_trial"
       /\ me.trial >= args.trials - 1
       /\ Len(me.all_trials) = Len(me.start_steps)
       /\ SetRun(r, [me EXCEPT
             !.outcome = [mean_profit |-> np_mean(me.total_profits),
                          std_profit |-> np_std(me.total_profits)],
             !.at = "done"])

\* ------------------------------------------------- DBClient.submit, db.py
SetDb(d) ==
    /\ db' = d
    /\ UNCHANGED <<images, containers, outfile, repoDir, outputDir, pc, frame,
                   obsVars, env, bot, cell>>

Returned(value) ==
    [db EXCEPT !.at = "submit", !.calls = Tail(@), !.cloned_submission = 0,
               !.returned = Append(@, value)]

\* lines 49-50: the two asserts
db_submit ==
    /\ db.at = "submit"
    /\ db.calls # <<>>
    /\ IF SubmitAsserts(db.heap[Head(db.calls)])
       THEN SetDb([db EXCEPT !.at = "copy"])
       ELSE SetDb(Returned("AssertionError"))
    /\ UNCHANGED table

\* lines 52-53: the converted copy and its stamp
db_copy ==
    /\ db.at = "copy"
    /\ \E t \in Times :
          LET made == cloned(db.heap, Head(db.calls))
          IN SetDb([db EXCEPT
                 !.heap = setitem(made.heap, made.ref, "submitted_at", I(t)),
                 !.cloned_submission = made.ref,
                 !.at = "put_item"])
    /\ UNCHANGED table

\* lines 55-62: put_item answers 200, answers another status, or raises
db_put_item ==
    /\ db.at = "put_item"
    /\ \/ /\ table' = put_item(table, db.heap[db.cloned_submission])
          /\ SetDb(Returned("True"))
       \/ /\ UNCHANGED table
          /\ SetDb(Returned("False"))
       \/ /\ UNCHANGED table
          /\ SetDb(Returned("ClientError"))

\* ------------------------------------------- Battery, bot/environment.py
Called(battery, op, returned) ==
    /\ cell' = [battery |-> battery, calls |-> cell.calls + 1,
                last |-> [op |-> op, returned |-> returned]]
    /\ UNCHANGED <<backendVars, bot, db>>

battery_charge ==
    /\ cell.calls < MaxCalls
    /\ \E power \in Powers, duration \in Durations :
          LET done == charge(cell.battery, power, duration)
          IN Called(done.battery, "charge", done.energy)

battery_discharge ==
    /\ cell.calls < MaxCalls
    /\ \E power \in Powers, duration \in Durations :
          LET done == discharge(cell.battery, power, duration)
          IN Called(done.battery, "discharge", done.energy)

battery_reset_call ==
    /\ cell.calls < MaxCalls
    /\ Called(battery_reset(cell.battery), "reset", 0)

\* ------------------------------------------------------- specifications
\* The steps of an invocation that do not need a service to fail.
Reliable(p) ==
    \/ main(p)
    \/ main_return(p)
    \/ check_submission_tags(p)
    \/ for_tag(p)
    \/ gate(p)
    \/ submit_pending(p)
    \/ run_evaluation(p)
    \/ clone(p)
    \/ save_docker_submission(p)
    \/ build(p)
    \/ run(p)
    \/ container(p)
    \/ logs(p)
    \/ stop(p)
    \/ remove(p)
    \/ images_remove(p)
    \/ open(p)
    \/ os_remove(p)
    \/ finally(p)
    \/ merge(p)
    \/ except(p)
    \/ submit_final(p)

Step(p) == Reliable(p) \/ submit_not_success(p)

\* Poll invocations one after the other, as the scheduler triggers them.
Next == Step("A")
Spec == Init /\ [][Next]_vars

\* Two poll invocations that may overlap in time.
NextOverlap == \E p \in Procs : Reliable(p)
SpecOverlap == InitOverlap /\ [][NextOverlap]_vars

\* Two overlapping poll invocations with an output mount each.
SpecMounts == InitMounts /\ [][NextOverlap]_vars

\* One poll invocation where repo_dir may exist before it is cloned into.
SpecDirs == InitDirs /\ [][Next]_vars

\* One invocation whose steps are always taken in the end: the interpreter
\* keeps running, and every service answers.
NextFair == Reliable("A")
SpecFair == InitFair /\ [][NextFair]_vars /\ WF_vars(NextFair)

\* Two runs of evaluate.py with the same arguments, the same data file and
\* the same policy code, each in an interpreter of its own.
InitEval ==
    /\ Start
    /\ env = [faults |-> {}, hang |-> FALSE, reinvoke |-> FALSE, head |-> "c1",
              listings |-> {<<>>}, cwd |-> [p \in Procs |-> "d1"]]
    /\ \E args \in Args, entropy \in [Runs -> 0..(RngStates - 1)] :
          bot = [args |-> args, run |-> [r \in Runs |-> NotStarted(entropy[r])]]
    /\ db = NoDb
    /\ cell = NoCell

NextEval ==
    \E r \in Runs :
        \/ evaluate_main(r)
        \/ for_trial(r)
        \/ for_zip(r)
        \/ json_dump(r)

SpecEval == InitEval /\ [][NextEval]_vars

\* A caller that submits two dicts of its own, one after the other.
InitSubmit ==
    /\ Start
    /\ env = [faults |-> Services, hang |-> FALSE, reinvoke |-> FALSE, head |-> "c1",
              listings |-> {<<>>}, cwd |-> [p \in Procs |-> "d1"]]
    /\ bot = NoBot
    /\ \E first \in Submissions, second \in Submissions :
          db = [NoDb EXCEPT !.at = "submit", !.heap = <<first, second>>,
                            !.calls = <<1, 2>>]
    /\ cell = NoCell

NextSubmit == db_submit \/ db_copy \/ db_put_item

SpecSubmit == InitSubmit /\ [][NextSubmit]_vars

\* A Battery and up to MaxCalls calls of charge, discharge and reset on it.
InitBattery ==
    /\ Start
    /\ env = [faults |-> {}, hang |-> FALSE, reinvoke |-> FALSE, head |-> "c1",
              listings |-> {<<>>}, cwd |-> [p \in Procs |-> "d1"]]
    /\ bot = NoBot
    /\ db = NoDb
    /\ \E battery \in Batteries :
          cell = [NoCell EXCEPT !.battery = battery, !.calls = 0]

NextBattery == battery_charge \/ battery_discharge \/ battery_reset_call

SpecBattery == InitBattery /\ [][NextBattery]_vars

\* ----------------------------------------------------------------- claims
RecordsOf(tbl, key) == get_item(tbl, key[1], key[2])
AfterRunner == {"open", "os_remove", "finally", "merge", "except", "submit_final"}
WritePcs == {"submit_pending", "submit_not_success", "submit_final"}

\* C1: under sequential poll invocations the store holds at most one record
\* per (team, commit) key, and an invocation never calls run_evaluation for a
\* key whose record was already success or failed when the invocation began.
C1_Idempotent ==
    /\ \A r1, r2 \in table : KeyOf(r1) = KeyOf(r2) => r1 = r2
    /\ \A p \in Procs : evaluated[p] \cap termAtStart[p] = {}

\* The gate has just skipped a tag whose record was terminal at the start.
C1_Witness ==
    \E p \in Procs :
        /\ pc[p] = "for_tag"
        /\ frame[p].cur # NoCommit
        /\ CurKey(p) \in termAtStart[p]
        /\ CurKey(p) \notin evaluated[p]

\* C2: once the Runner call has returned or raised, no container and no
\* image tagged with the identifier of that call remains.
C2_CleanupOnEveryExit ==
    \A p \in Procs :
        (pc[p] \in AfterRunner /\ call(p).uuid # 0)
            => call(p).uuid \notin (images \cup containers)

\* C3: every record a write of submit_output puts into the store carries the
\* team and the commit of the tag being evaluated.
C3_RecordsKeyedByTag ==
    [][\A r \in table' \ table :
          \E p \in Procs :
             /\ pc[p] \in WritePcs
             /\ KeyOf(r) = <<S(repo_name(p)), S(commit_sha(p))>>]_vars

\* C4: when an invocation has run to its end and no store operation of it
\* failed, every key it discovered holds exactly one record, and that record
\* is success or failed.
C4_EveryDiscoveredTerminal ==
    \A p \in Procs :
        (result[p] = "done" /\ ~faulted[p]) =>
            \A key \in discovered[p] :
                /\ Cardinality(RecordsOf(table, key)) = 1
                /\ StatusOf(table, key) \subseteq Terminal

IsFailedRecord(rec, p, error) ==
    /\ rec["team"] = S(repo_name(p))
    /\ rec["commit_hash"] = S(commit_sha(p))
    /\ rec["status"] = S("failed")
    /\ rec["error"] = error
    /\ rec["error"] # None
    /\ rec["error_traceback"] # None

\* C5: an exception of the evaluation never ends the invocation; it reaches
\* the terminal write as a failed submission with error and error_traceback
\* set, the record an accepted terminal write stores is that submission, and
\* the loop goes on with the next tag.
C5_ExceptionsBecomeFailedRecords ==
    [][\A p \in Procs :
          /\ result'[p] \notin ExceptionClasses
          /\ (pc'[p] = "submit_final" /\ frame'[p].call.exc # None)
                => IsFailedRecord(frame'[p].call.submission, p, str(frame'[p].call.exc))
          /\ (pc[p] = "submit_final" /\ call(p).exc # None /\ pc'[p] # "idle")
                => /\ pc'[p] = "for_tag"
                   /\ \/ table' = table
                      \/ \E rec \in RecordsOf(table', CurKey(p)) :
                            IsFailedRecord(rec, p, str(call(p).exc))]_vars

\* An invocation is at the gate of a later tag after an evaluation of it
\* raised and left a failed record with the error.
C5_Witness ==
    \E p \in Procs : \E rec \in table :
        /\ pc[p] = "gate"
        /\ rec["status"] = S("failed")
        /\ rec["error"] \in {str(S(kind)) : kind \in ExceptionClasses}
        /\ rec["error_traceback"] # None
        /\ <<rec["team"].s, rec["commit_hash"].s>> \in evaluated[p]
        /\ <<rec["team"].s, rec["commit_hash"].s>> # CurKey(p)

\* C6: when the sandboxed program of an evaluation wrote no result file, the
\* extraction of that evaluation fails and its submission is not success.
C6_NoSuccessWithoutResultFile ==
    \A p \in Procs :
        call(p).wrote = NoFile =>
            /\ pc[p] \notin {"os_remove", "merge"}
            /\ pc[p] = "submit_final" => call(p).submission["status"] # S("success")

\* C7: when an evaluation starts, the output mount holds no output.json.
C7_NoStaleResultFile ==
    \A p \in Procs : pc[p] = "run_evaluation" => outfile[cwd(p)] = NoFile

\* C8: no step replaces a success or failed record by a record of another
\* status (or removes it).
C8_StatusLifecycle ==
    [][\A r \in table :
          r["status"] \in Terminal =>
             \E r2 \in table' : KeyOf(r2) = KeyOf(r) /\ r2["status"] = r["status"]]_vars

\* C9: the gate skips a tag only when the record of its commit is success or
\* failed.
C9_GateSkipsOnlyTerminal ==
    [][\A p \in Procs :
          (pc[p] = "gate" /\ pc'[p] = "for_tag") =>
             /\ StatusOf(table, CurKey(p)) # {}
             /\ StatusOf(table, CurKey(p)) \subseteq Terminal]_vars

\* C10: two overlapping invocations never both call run_evaluation for the
\* same (team, commit).
C10_EvaluatedAtMostOnce ==
    evaluated["A"] \cap evaluated["B"] = {}

\* C11: an error of the tag listing of one repository never ends the
\* invocation: from the listing request the invocation always goes on to the
\* tags of that repository, and so to the repositories after it.
C11_PollErrorIsolated ==
    [][\A p \in Procs :
          (pc[p] = "for_repo" /\ frame[p].ri <= Len(REPOS)) => pc'[p] # "idle"]_vars

\* C17: when the terminal write is the first store operation of the
\* invocation that fails, the invocation stays at the terminal write to try
\* it again.
C17_TerminalWriteRetried ==
    [][\A p \in Procs :
          (pc[p] = "submit_final" /\ ~faulted[p] /\ faulted'[p])
              => pc'[p] = "submit_final"]_vars

\* C18: whichever way a write of the pending placeholder fails, the
\* invocation goes on to the evaluation of that submission.
C18_PendingFailureNonFatal ==
    [][\A p \in Procs :
          (pc[p] \in {"submit_pending", "submit_not_success"} /\ faulted'[p])
              => pc'[p] \in {"submit_not_success", "run_evaluation"}]_vars

\* C12: an invocation that waits for a sandboxed program, at the log stream
\* of the Runner call, eventually leaves it.
C12_RunnerCallEnds ==
    \A p \in Procs : (pc[p] = "logs") ~> (pc[p] # "logs")

\* C13: the Runner call returns to its caller without an error only when
\* the sandboxed program exited with status zero.
C13_NonZeroExitIsRunError ==
    [][\A p \in Procs :
          (pc[p] = "images_remove" /\ pc'[p] = "open") => call(p).exit = "zero"]_vars

\* An artifact with the fields the record is built from.
WellFormedArtifact(out) ==
    /\ out.k = "dict"
    /\ {"score", "trials", "main_trial_idx"} \subseteq DOMAIN out.d
    /\ out.d["trials"].k = "list"
    /\ out.d["main_trial_idx"].k = "int"
    /\ InRange(out.d["trials"].items, out.d["main_trial_idx"].n)

\* The record of a success, as the store keeps it, for this artifact.
IsSuccessRecord(rec, out) ==
    /\ rec["status"] = S("success")
    /\ rec["score"] = convert_floats_to_decimal(out.d["score"])
    /\ "main_trial" \in DOMAIN rec
    /\ rec["main_trial"] = convert_floats_to_decimal(
           Index(out.d["trials"].items, out.d["main_trial_idx"].n))
    /\ "trials" \notin DOMAIN rec
    /\ rec["error"] = None
    /\ rec["error_traceback"] = None

\* C14: when the evaluation of a tag returned a well-formed artifact and no
\* store operation of the invocation failed, the terminal write leaves under
\* the key of the tag a success record with the score and the main trial of
\* the artifact, without trials, error and error_traceback unset.
C14_SuccessRecordFields ==
    [][\A p \in Procs :
          (/\ pc[p] = "submit_final"
           /\ pc'[p] = "for_tag"
           /\ ~faulted'[p]
           /\ call(p).exc = None
           /\ WellFormedArtifact(call(p).output))
              => \E rec \in RecordsOf(table', CurKey(p)) :
                    IsSuccessRecord(rec, call(p).output)]_vars

\* The tags of a listing whose name contains the marker, in their order.
MarkerTags(listing) ==
    SelectSeq(listing, LAMBDA tag : Contains(Marker, tag.name))

\* C15: the Tag Poller returns the commits of exactly the tags of the
\* response whose name contains 'submission', each with its own commit and
\* in the order of the response; v1.0 has no marker, submission-1 has.
C15_TagFilter ==
    [][\A p \in Procs :
          (pc[p] = "for_repo" /\ pc'[p] = "for_tag") =>
             \A listing \in env.listings :
                /\ frame'[p].tagsLeft = CommitShas(MarkerTags(FirstPage(listing)))
                /\ \A i \in 1..Len(FirstPage(listing)) :
                      LET tag == FirstPage(listing)[i] IN
                      /\ tag.name = V10 =>
                            Len(frame'[p].tagsLeft) < Len(FirstPage(listing))
                      /\ tag.name = Sub1 =>
                            \E j \in 1..Len(frame'[p].tagsLeft) :
                               frame'[p].tagsLeft[j] = tag.sha]_vars

\* The Tag Poller has answered for a repository that has v1.0 at c1 and
\* submission-1 at c2: it returned the commit of submission-1 alone.
C15_Witness ==
    \E p \in Procs :
        /\ pc[p] = "for_tag"
        /\ frame[p].cur = NoCommit
        /\ frame[p].tagsLeft = <<"c2">>
        /\ \E listing \in env.listings :
              FirstPage(listing) = <<[name |-> V10, sha |-> "c1"],
                                     [name |-> Sub1, sha |-> "c2"]>>

\* C16: the Tag Poller returns the commit of every tag of the repository
\* whose name contains the marker, on whichever page of the listing it is.
C16_EveryPageReturned ==
    [][\A p \in Procs :
          (pc[p] = "for_repo" /\ pc'[p] = "for_tag") =>
             \A listing \in env.listings :
                frame'[p].tagsLeft = CommitShas(MarkerTags(listing))]_vars

\* The positions of an evaluation at which it holds the data it read.
AfterRead == {"os_remove", "finally", "merge", "submit_final"}

\* C19: with an output mount each, the data an evaluation read from
\* output.json is what the sandbox run of that evaluation wrote.
C19_ReadsOwnArtifact ==
    \A p \in Procs :
        (pc[p] \in AfterRead /\ call(p).output # None)
            => call(p).wrote = Json(call(p).output)

\* Both evaluations hold the data they read at the same time, each its own:
\* the two sandbox runs wrote different artifacts.
C19_Witness ==
    /\ \A p \in Procs : pc[p] \in AfterRead /\ call(p).output # None
    /\ call("A").output # call("B").output
    /\ env.cwd["A"] # env.cwd["B"]

\* C20: two runs of evaluate.py with the same policy code and parameters,
\* the same data and the same seed choose the same start_step and
\* episode_length for every trial and produce the same mean_profit and
\* std_profit.
SameNumber(a, b) ==
    /\ (a.den = 0) <=> (b.den = 0)
    /\ a.num * b.den = b.num * a.den

C20_SameSeedSameOutcome ==
    (\A r \in Runs : bot.run[r].at = "done") =>
        \A r \in Runs :
            /\ bot.run[r].start_steps = bot.run[1].start_steps
            /\ bot.run[r].episode_lengths = bot.run[1].episode_lengths
            /\ SameNumber(bot.run[r].outcome.mean_profit, bot.run[1].outcome.mean_profit)
            /\ bot.run[r].outcome.std_profit = bot.run[1].outcome.std_profit

\* C20, witness: both runs are over, their interpreters started the
\* generators differently, trials were drawn at random and made profits.
C20_Witness ==
    /\ \A r \in Runs : bot.run[r].at = "done"
    /\ bot.run[1].entropy # bot.run[2].entropy
    /\ bot.args.trials = MaxTrials
    /\ \E i \in 1..Len(bot.run[1].start_steps) : bot.run[1].start_steps[i] # 0
    /\ bot.run[1].outcome.mean_profit.num # 0

\* C21: the source tree the sandbox builds for a discovered tag is the
\* repository's tree at the tag's commit_sha, so that the terminal record
\* under (team, commit_sha) reports the outcome of the code at that commit.
C21_BuildsTaggedCommit ==
    \A p \in Procs :
        pc[p] = "build" => repoDir[cwd(p)][repo_name(p)] = commit_sha(p)

\* C22: after reset(start_step, episode_length) the episode has that length:
\* a trial recorded by run_trial with a given episode_length has at most
\* episode_length entries in actions, profits, socs and market_prices.
C22_EpisodeHasItsLength ==
    \A r \in Runs :
        \A i \in 1..Len(bot.run[r].all_trials) :
            LET trial == bot.run[r].all_trials[i] IN
            /\ Len(trial.actions) <= trial.episode_length
            /\ Len(trial.profits) <= trial.episode_length
            /\ Len(trial.socs) <= trial.episode_length
            /\ Len(trial.market_prices) <= trial.episode_length

\* C23: run_evaluation never touches a directory it did not create: if
\* repo_dir already exists it raises before cloning and the directory stays
\* in place; otherwise repo_dir no longer exists once run_evaluation has
\* returned or raised, whatever the clone, the Runner and the Extractor did.
InRunEvaluation ==
    {"clone", "save_docker_submission", "build", "run", "container", "logs",
     "stop", "remove", "images_remove", "open", "os_remove", "finally"}

C23_OnlyOwnDirectoryTouched ==
    [][\A p \in Procs :
        /\ \A r \in RepoNames :
              repoDir[cwd(p)][r] = LeftBehind => repoDir'[cwd(p)][r] = LeftBehind
        /\ (pc[p] = "run_evaluation" /\ pc'[p] # "run_evaluation"
                /\ repoDir[cwd(p)][repo_name(p)] # NoDir)
              => (pc'[p] = "except" /\ call(p)'.exc = S("ValueError"))
        /\ (pc[p] \in InRunEvaluation /\ pc'[p] \notin InRunEvaluation)
              => repoDir'[cwd(p)][repo_name(p)] = NoDir]_vars

\* C23, witness: the invocation is over; it found the first repository's
\* directory in place, which is still there, and it cloned, ran and
\* recorded the second repository, whose directory is gone.
C23_Witness ==
    /\ pc["A"] = "idle" /\ result["A"] = "done"
    /\ repoDir["d1"][REPOS[1]] = LeftBehind
    /\ repoDir["d1"][REPOS[2]] = NoDir
    /\ \E rec \in get_item(table, REPOS[1], "c1") : rec["status"] = S("failed")
    /\ \E rec \in get_item(table, REPOS[2], "c1") : rec["status"] = S("success")

\* C24: DBClient.submit rejects a submission without the team key or
\* without the commit_hash key with an assertion error before any write,
\* the store being unchanged then; in every case the caller's dict is left
\* unchanged, submitted_at being added to the stored copy only.
C24_SubmitChecksAndCopies ==
    [][/\ \A ref \in CallerRefs \cap DOMAIN db.heap : db'.heap[ref] = db.heap[ref]
       /\ db.at # "put_item" => table' = table
       /\ (db.at = "submit" /\ db.calls # <<>>
             /\ ~({"team", "commit_hash"} \subseteq DOMAIN db.heap[Head(db.calls)]))
            => /\ db'.returned = Append(db.returned, "AssertionError")
               /\ table' = table]_vars

\* C24, witness: the first dict was stored, converted and stamped, and is
\* itself as the caller made it; the second lacks a key and was rejected.
C24_Witness ==
    /\ db.calls = <<>> /\ db.returned = <<"True", "AssertionError">>
    /\ db.heap[1]["score"] = F(125) /\ "submitted_at" \notin DOMAIN db.heap[1]
    /\ "team" \notin DOMAIN db.heap[2]
    /\ \E item \in table : item["score"] = Dec(125) /\ "submitted_at" \in DOMAIN item

\* C25: for a Battery with 0 <= initial_charge and positive capacity, after
\* any sequence of reset, charge and discharge calls with power >= 0 and
\* duration >= 0, 0 <= state_of_charge <= capacity holds, and the energy a
\* charge or discharge call returns is the absolute change of
\* state_of_charge the call made.
C25_ChargeWithinBounds ==
    [][/\ 0 <= cell'.battery.state_of_charge
       /\ cell'.battery.state_of_charge <= cell'.battery.capacity
       /\ cell'.last.op \in {"charge", "discharge"} =>
             LET change == cell'.battery.state_of_charge - cell.battery.state_of_charge
             IN cell'.last.returned = IF change < 0 THEN -change ELSE change]_vars

\* C25, witness: after MaxCalls calls, a charge that the capacity cut short
\* has just returned what the battery took.
C25_Witness ==
    /\ cell.calls = MaxCalls
    /\ cell.last.op = "charge"
    /\ cell.last.returned > 0
    /\ cell.last.returned < cell.battery.capacity
    /\ cell.battery.state_of_charge = cell.battery.capacity
    /\ cell.battery.initial_charge < cell.battery.capacity

====
